---- MODULE Spec2Model ----
(***************************************************************************)
(* Model of scripts/somatic_germline_module.py and                         *)
(* scripts/Sapelo2_extract_somatic_germline.py: the protein-notation       *)
(* translator (identify_species_counterparts), the alignment index it      *)
(* reads (createDictforHumanDogSearch) and the main script's run from the  *)
(* GATK/Annovar join to the reconciled output table.                       *)
(*                                                                         *)
(* Strings the code takes apart (the protein change) are sequences of      *)
(* one-character strings; strings it only compares (gene names, transcript *)
(* identifiers, line identifiers) are atoms.                               *)
(***************************************************************************)
EXTENDS Integers, Sequences, FiniteSets, TLC

\* ------------------------------------------------------------------------
\* Bounds of the model
\* ------------------------------------------------------------------------
\* longest protein-change text the translator is applied to
MaxLen == 4
\* most rows of an alignment table
MaxAlignRows == 1
\* most rows of the annotation table (target_annovar_info)
MaxRows == 2
\* most records of the GATK table
MaxGatk == 1
\* most rows of the alignment table indexed on its own
MaxIndexRows == 3

VARIABLES
    \* the main script: position, inputs read, tables built, exception raised
    pc, files, gatk_data, merge_gatk_annovar, target_merge_gatk_annovar,
    pan_cancer_pass, c_bio_pass, cosm_pass, cosm_pass_uniq,
    final_panancer_cbio_cosmic, total_final_out, written, error,
    \* one call of identify_species_counterparts: its arguments and outcome
    call, ret,
    \* the index of one alignment table: position, the table as read and
    \* marked, its records after the gap filter, the four mappings
    index_pc, translate_allign_table, clean_records, total_summary_dict

vars ==
    <<pc, files, gatk_data, merge_gatk_annovar, target_merge_gatk_annovar,
      pan_cancer_pass, c_bio_pass, cosm_pass, cosm_pass_uniq,
      final_panancer_cbio_cosmic, total_final_out, written, error, call, ret,
      index_pc, translate_allign_table, clean_records, total_summary_dict>>

indexVars == <<index_pc, translate_allign_table, clean_records, total_summary_dict>>

scriptVars ==
    <<pc, files, gatk_data, merge_gatk_annovar, target_merge_gatk_annovar,
      pan_cancer_pass, c_bio_pass, cosm_pass, cosm_pass_uniq,
      final_panancer_cbio_cosmic, total_final_out, written, error>>

\* ------------------------------------------------------------------------
\* Characters
\* ------------------------------------------------------------------------
UpperLetters ==
    {"A","B","C","D","E","F","G","H","I","J","K","L","M",
     "N","O","P","Q","R","S","T","U","V","W","X","Y","Z"}

LowerLetters ==
    {"a","b","c","d","e","f","g","h","i","j","k","l","m",
     "n","o","p","q","r","s","t","u","v","w","x","y","z"}

Digits == {"0","1","2","3","4","5","6","7","8","9"}

Letters == UpperLetters \cup LowerLetters

LowerSeq ==
    <<"a","b","c","d","e","f","g","h","i","j","k","l","m",
      "n","o","p","q","r","s","t","u","v","w","x","y","z">>

UpperSeq ==
    <<"A","B","C","D","E","F","G","H","I","J","K","L","M",
      "N","O","P","Q","R","S","T","U","V","W","X","Y","Z">>

\* str.upper() on one character
Upper(c) ==
    IF c \in LowerLetters
    THEN UpperSeq[CHOOSE i \in 1..26 : LowerSeq[i] = c]
    ELSE c

\* the keys of common_amino_acid_value
common_amino_acid_value ==
    {"A","R","N","D","C","E","Q","G","H","I","L","K","M","F",
     "P","S","T","W","Y","V","X"}

\* ------------------------------------------------------------------------
\* Sequences of characters
\* ------------------------------------------------------------------------
\* "fs" in mut_info
ContainsFs(s) ==
    \E i \in 1..(Len(s) - 1) : s[i] = "f" /\ s[i + 1] = "s"

\* last index of the run of characters of class cls that starts at index i
\* (i - 1 when s[i] is not in cls)
RECURSIVE RunEnd(_, _, _)
RunEnd(s, i, cls) ==
    IF i <= Len(s) /\ s[i] \in cls THEN RunEnd(s, i + 1, cls) ELSE i - 1

\* number of "_" in s
RECURSIVE CountUnderscore(_)
CountUnderscore(s) ==
    IF s = <<>> THEN 0
    ELSE (IF Head(s) = "_" THEN 1 ELSE 0) + CountUnderscore(Tail(s))

\* re.search(r"([A-Za-z])(\d+)([A-Za-z]*)(fs)", s) matches starting at i:
\* a letter, the whole run of digits after it (a shorter run would leave a
\* digit where a letter is required), then letters among which "fs" occurs
FsMatchAt(s, i) ==
    /\ s[i] \in Letters
    /\ LET k == RunEnd(s, i + 1, Digits)
           e == RunEnd(s, k + 1, Letters)
       IN  /\ k >= i + 1
           /\ \E m \in (k + 1)..(e - 1) : s[m] = "f" /\ s[m + 1] = "s"

\* re.search(r"([A-Za-z])(\d+)([A-Z])", s) matches starting at i
SnvMatchAt(s, i) ==
    /\ s[i] \in Letters
    /\ LET k == RunEnd(s, i + 1, Digits)
       IN  /\ k >= i + 1
           /\ k + 1 <= Len(s)
           /\ s[k + 1] \in UpperLetters

FsMatches(s) == \E i \in 1..Len(s) : FsMatchAt(s, i)

SnvMatches(s) == \E i \in 1..Len(s) : SnvMatchAt(s, i)

\* re.search returns the leftmost match
FsStart(s) == CHOOSE i \in 1..Len(s) : FsMatchAt(s, i) /\ \A j \in 1..(i - 1) : ~FsMatchAt(s, j)

SnvStart(s) == CHOOSE i \in 1..Len(s) : SnvMatchAt(s, i) /\ \A j \in 1..(i - 1) : ~SnvMatchAt(s, j)

\* the groups of a match starting at i: wild type, position digits
GroupWt(s, i) == s[i]

GroupPos(s, i) == SubSeq(s, i + 1, RunEnd(s, i + 1, Digits))

GroupMut(s, i) == s[RunEnd(s, i + 1, Digits) + 1]

\* ------------------------------------------------------------------------
\* Python values
\* ------------------------------------------------------------------------
\* a position as pandas read it from the alignment table: a str, or an int
\* when the whole column parsed as numbers; d is its decimal text
StrPos(d) == [t |-> "str", d |-> d]

IntPos(d) == [t |-> "int", d |-> d]

\* str(other_species_pos)
Str(p) == p.d

EmptyDict == [x \in {} |-> {}]

\* d[k] = v
DictPut(d, k, v) == [x \in (DOMAIN d) \cup {k} |-> IF x = k THEN v ELSE d[x]]

\* s.split("_"): the parts of s between the underscores
RECURSIVE Split(_)
Split(s) ==
    IF \A i \in 1..Len(s) : s[i] # "_" THEN <<s>>
    ELSE LET u == CHOOSE i \in 1..Len(s) :
                      s[i] = "_" /\ \A j \in 1..(i - 1) : s[j] # "_"
         IN  <<SubSeq(s, 1, u - 1)>> \o Split(SubSeq(s, u + 1, Len(s)))

\* ------------------------------------------------------------------------
\* createDictforHumanDogSearch
\* ------------------------------------------------------------------------
\* d[k] = v only where d has no k yet
DictPutNew(d, k, v) == IF k \in DOMAIN d THEN d ELSE DictPut(d, k, v)

\* DictStep in which the first row of a position is kept and later rows of
\* the same position are ignored
DictStepKeepsFirst(total, entry) ==
    LET gene == entry.gene
        t0 == IF gene \notin DOMAIN total.human_dog_pos_dict
              THEN [human_dog_pos_dict |-> DictPut(total.human_dog_pos_dict, gene, EmptyDict),
                    dog_human_pos_dict |-> DictPut(total.dog_human_pos_dict, gene, EmptyDict),
                    human_aa_dict |-> DictPut(total.human_aa_dict, gene, EmptyDict),
                    dog_aa_dict |-> DictPut(total.dog_aa_dict, gene, EmptyDict)]
              ELSE total
    IN  [human_dog_pos_dict |->
            DictPut(t0.human_dog_pos_dict, gene,
                    DictPutNew(t0.human_dog_pos_dict[gene], entry.human_pos, entry.dog_pos)),
         dog_human_pos_dict |->
            DictPut(t0.dog_human_pos_dict, gene,
                    DictPutNew(t0.dog_human_pos_dict[gene], entry.dog_pos, entry.human_pos)),
         human_aa_dict |->
            DictPut(t0.human_aa_dict, gene,
                    DictPutNew(t0.human_aa_dict[gene], entry.human_pos, entry.human_aa)),
         dog_aa_dict |->
            DictPut(t0.dog_aa_dict, gene,
                    DictPutNew(t0.dog_aa_dict[gene], entry.dog_pos, entry.dog_aa))]

\* one pass of the loop body over the entry
DictStep(total, entry) ==
    LET gene == entry.gene
        t0 == IF gene \notin DOMAIN total.human_dog_pos_dict
              THEN [human_dog_pos_dict |-> DictPut(total.human_dog_pos_dict, gene, EmptyDict),
                    dog_human_pos_dict |-> DictPut(total.dog_human_pos_dict, gene, EmptyDict),
                    human_aa_dict |-> DictPut(total.human_aa_dict, gene, EmptyDict),
                    dog_aa_dict |-> DictPut(total.dog_aa_dict, gene, EmptyDict)]
              ELSE total
    IN  [human_dog_pos_dict |->
            DictPut(t0.human_dog_pos_dict, gene,
                    DictPut(t0.human_dog_pos_dict[gene], entry.human_pos, entry.dog_pos)),
         dog_human_pos_dict |->
            DictPut(t0.dog_human_pos_dict, gene,
                    DictPut(t0.dog_human_pos_dict[gene], entry.dog_pos, entry.human_pos)),
         human_aa_dict |->
            DictPut(t0.human_aa_dict, gene,
                    DictPut(t0.human_aa_dict[gene], entry.human_pos, entry.human_aa)),
         dog_aa_dict |->
            DictPut(t0.dog_aa_dict, gene,
                    DictPut(t0.dog_aa_dict[gene], entry.dog_pos, entry.dog_aa))]

EmptyTotalDict ==
    [human_dog_pos_dict |-> EmptyDict, dog_human_pos_dict |-> EmptyDict,
     human_aa_dict |-> EmptyDict, dog_aa_dict |-> EmptyDict]

RECURSIVE DictLoop(_, _)
DictLoop(total, table) ==
    IF table = <<>> THEN total
    ELSE DictLoop(DictStep(total, Head(table)), Tail(table))

createDictforHumanDogSearch(clean_translate_table) ==
    DictLoop(EmptyTotalDict, clean_translate_table)

\* ------------------------------------------------------------------------
\* identify_species_counterparts
\* ------------------------------------------------------------------------
NoCounterparts == <<"No Counterparts">>

NoMutation == <<"No Mutation">>

Returned(v) == [raised |-> "none", value |-> v]

Raised(e) == [raised |-> e, value |-> <<>>]

\* the if/elif that binds wt, pos, mut and situtation: "unbound" when no
\* branch assigns situtation
Situation(mut_info) ==
    IF ContainsFs(mut_info)
    THEN (IF FsMatches(mut_info) THEN "fs" ELSE "unbound")
    ELSE (IF SnvMatches(mut_info) THEN "SNV" ELSE "unbound")

\* Counterpart without the comparison of the mutant to the other species'
\* residue: a mutant equal to that residue is translated like any other
CounterpartWithoutNoMutation(gene_name, situtation, wt, pos, mut, ref_dict, alt_dict, other_species_aa_dict) ==
    IF gene_name \notin DOMAIN alt_dict THEN Returned(NoCounterparts)
    ELSE IF Upper(wt) \notin common_amino_acid_value THEN Returned(NoCounterparts)
    ELSE IF situtation = "fs" THEN Raised("UnboundLocalError")
    ELSE IF Upper(mut) \notin common_amino_acid_value THEN Returned(NoCounterparts)
    ELSE IF gene_name \notin DOMAIN ref_dict THEN Raised("KeyError")
    ELSE IF pos \notin DOMAIN ref_dict[gene_name] THEN Returned(NoCounterparts)
    ELSE IF gene_name \notin DOMAIN other_species_aa_dict THEN Raised("KeyError")
    ELSE LET other_species_pos == ref_dict[gene_name][pos]
         IN  IF other_species_pos \notin DOMAIN other_species_aa_dict[gene_name]
             THEN Returned(NoCounterparts)
             ELSE LET other_species_wt == other_species_aa_dict[gene_name][other_species_pos]
                  IN  IF wt = mut
                      THEN Returned(gene_name \o <<"_", other_species_wt>>
                                    \o Str(other_species_pos) \o <<other_species_wt>>)
                      ELSE Returned(gene_name \o <<"_", other_species_wt>>
                                    \o Str(other_species_pos) \o <<mut>>)

\* Counterpart with the comparison of the mutant to the other species'
\* residue made before the comparison of the mutant to the wild type
CounterpartNoMutationFirst(gene_name, situtation, wt, pos, mut, ref_dict, alt_dict, other_species_aa_dict) ==
    IF gene_name \notin DOMAIN alt_dict THEN Returned(NoCounterparts)
    ELSE IF Upper(wt) \notin common_amino_acid_value THEN Returned(NoCounterparts)
    ELSE IF situtation = "fs" THEN Raised("UnboundLocalError")
    ELSE IF Upper(mut) \notin common_amino_acid_value THEN Returned(NoCounterparts)
    ELSE IF gene_name \notin DOMAIN ref_dict THEN Raised("KeyError")
    ELSE IF pos \notin DOMAIN ref_dict[gene_name] THEN Returned(NoCounterparts)
    ELSE IF gene_name \notin DOMAIN other_species_aa_dict THEN Raised("KeyError")
    ELSE LET other_species_pos == ref_dict[gene_name][pos]
         IN  IF other_species_pos \notin DOMAIN other_species_aa_dict[gene_name]
             THEN Returned(NoCounterparts)
             ELSE LET other_species_wt == other_species_aa_dict[gene_name][other_species_pos]
                  IN  IF mut = other_species_wt
                      THEN Returned(NoMutation)
                      ELSE IF wt = mut
                      THEN Returned(gene_name \o <<"_", other_species_wt>>
                                    \o Str(other_species_pos) \o <<other_species_wt>>)
                      ELSE Returned(gene_name \o <<"_", other_species_wt>>
                                    \o Str(other_species_pos) \o <<mut>>)

\* the nested ifs under "if situtation:", with wt, pos and (for SNV) mut bound
Counterpart(gene_name, situtation, wt, pos, mut, ref_dict, alt_dict, other_species_aa_dict) ==
    IF gene_name \notin DOMAIN alt_dict THEN Returned(NoCounterparts)
    ELSE IF Upper(wt) \notin common_amino_acid_value THEN Returned(NoCounterparts)
    ELSE IF situtation = "fs" THEN Raised("UnboundLocalError")
    ELSE IF Upper(mut) \notin common_amino_acid_value THEN Returned(NoCounterparts)
    ELSE IF gene_name \notin DOMAIN ref_dict THEN Raised("KeyError")
    ELSE IF pos \notin DOMAIN ref_dict[gene_name] THEN Returned(NoCounterparts)
    ELSE IF gene_name \notin DOMAIN other_species_aa_dict THEN Raised("KeyError")
    ELSE LET other_species_pos == ref_dict[gene_name][pos]
         IN  IF other_species_pos \notin DOMAIN other_species_aa_dict[gene_name]
             THEN Returned(NoCounterparts)
             ELSE LET other_species_wt == other_species_aa_dict[gene_name][other_species_pos]
                  IN  IF wt = mut
                      THEN Returned(gene_name \o <<"_", other_species_wt>>
                                    \o Str(other_species_pos) \o <<other_species_wt>>)
                      ELSE IF mut = other_species_wt
                      THEN Returned(NoMutation)
                      ELSE Returned(gene_name \o <<"_", other_species_wt>>
                                    \o Str(other_species_pos) \o <<mut>>)

identify_species_counterparts(gene_mut_info, human_dog_pos_dict, dog_human_pos_dict, human_aa_dict, dog_aa_dict, translate_to) ==
    LET parts == Split(gene_mut_info)
        toDog == translate_to \in {"dog", "DOG", "Dog"}
        ref_dict == IF toDog THEN human_dog_pos_dict ELSE dog_human_pos_dict
        alt_dict == IF toDog THEN dog_human_pos_dict ELSE human_dog_pos_dict
        other_species_aa_dict == IF toDog THEN dog_aa_dict ELSE human_aa_dict
    IN  IF Len(parts) # 2 THEN Raised("ValueError")
        ELSE LET gene_name == parts[1]
                 mut_info == parts[2]
                 situtation == Situation(mut_info)
             IN  IF situtation = "unbound" THEN Raised("UnboundLocalError")
                 ELSE IF situtation = "fs"
                 THEN LET i == FsStart(mut_info)
                      IN  Counterpart(gene_name, situtation, GroupWt(mut_info, i),
                                      StrPos(GroupPos(mut_info, i)), "",
                                      ref_dict, alt_dict, other_species_aa_dict)
                 ELSE LET i == SnvStart(mut_info)
                      IN  Counterpart(gene_name, situtation, GroupWt(mut_info, i),
                                      StrPos(GroupPos(mut_info, i)), GroupMut(mut_info, i),
                                      ref_dict, alt_dict, other_species_aa_dict)

\* ------------------------------------------------------------------------
\* Values of the read-depth columns
\* ------------------------------------------------------------------------
\* an int, a str or the float NaN a left merge fills in; d is the text
IntVal(d) == [t |-> "int", d |-> d]

StrVal(d) == [t |-> "str", d |-> d]

NaNVal == [t |-> "nan", d |-> "nan"]

\* texts int() accepts, among the texts of the model
DecimalTexts == {"0", "3", "5"}

\* a != b on two such values; NaN differs from everything
PyNe(a, b) == a.t = "nan" \/ a # b

\* extractVAF: gatk_info is given as its ":"-separated fields, each as its
\* ","-separated texts
extractVAF(gatk_info) ==
    IF Len(gatk_info) > 1
    THEN LET vaf_info == gatk_info[2]
         IN  IF vaf_info[1] \notin DecimalTexts THEN [raised |-> "ValueError"]
             ELSE IF Len(vaf_info) < 2 THEN [raised |-> "IndexError"]
             ELSE IF vaf_info[2] \notin DecimalTexts THEN [raised |-> "ValueError"]
             ELSE [raised |-> "none", ref |-> IntVal(vaf_info[1]), alt |-> IntVal(vaf_info[2])]
    ELSE [raised |-> "none", ref |-> StrVal("No info provided"),
          alt |-> StrVal("No info provided")]

\* ------------------------------------------------------------------------
\* Inputs of a call of identify_species_counterparts
\* ------------------------------------------------------------------------
\* characters of the protein-change texts tried: standard residues, a
\* non-standard residue, the letters of "fs", a digit, "*" and "_"
TokenChars == {"R", "H", "B", "f", "s", "1", "*", "_"}

RECURSIVE SeqsUpTo(_, _)
SeqsUpTo(S, n) ==
    IF n = 0 THEN {<<>>}
    ELSE LET shorter == SeqsUpTo(S, n - 1)
         IN  shorter \cup {Append(q, c) : q \in shorter, c \in S}

GeneNames == {<<"TP53">>, <<"KRAS">>}

\* rows of a cleaned alignment table, as createDictforHumanDogSearch reads
\* them: entry[1..5] = gene, human position, dog position, human residue,
\* dog residue
AlignEntry(g, hp, dp, ha, da) ==
    [gene |-> g, human_pos |-> hp, dog_pos |-> dp, human_aa |-> ha, dog_aa |-> da]

AlignEntries ==
    {AlignEntry(<<"TP53">>, StrPos(<<"1">>), StrPos(<<"1">>), "H", "R"),
     AlignEntry(<<"TP53">>, StrPos(<<"1">>), StrPos(<<"1">>), "R", "H"),
     AlignEntry(<<"TP53">>, IntPos(<<"1">>), IntPos(<<"1">>), "H", "R")}

AlignTables == SeqsUpTo(AlignEntries, MaxAlignRows)

Idle == [raised |-> "idle", value |-> <<>>]

Pending == [raised |-> "pending", value |-> <<>>]

NoCall == [gene_mut_info |-> <<>>, table |-> <<>>, translate_to |-> "human"]

ScriptIdle ==
    /\ pc = "idle"
    /\ files = <<>>
    /\ gatk_data = {}
    /\ merge_gatk_annovar = {}
    /\ target_merge_gatk_annovar = {}
    /\ pan_cancer_pass = {}
    /\ c_bio_pass = {}
    /\ cosm_pass = {}
    /\ cosm_pass_uniq = {}
    /\ final_panancer_cbio_cosmic = {}
    /\ total_final_out = {}
    /\ written = <<>>
    /\ error = "none"

\* no alignment table is being indexed
IndexIdle ==
    /\ index_pc = "idle"
    /\ translate_allign_table = <<>>
    /\ clean_records = <<>>
    /\ total_summary_dict = EmptyTotalDict

InitTranslate ==
    /\ ScriptIdle
    /\ IndexIdle
    /\ \E g \in GeneNames, c \in SeqsUpTo(TokenChars, MaxLen),
          t \in AlignTables, d \in {"human", "dog"} :
           call = [gene_mut_info |-> g \o <<"_">> \o c, table |-> t, translate_to |-> d]
    /\ ret = Pending

\* the call runs to its return or to the exception it raises
Translate ==
    /\ ret = Pending
    /\ LET total == createDictforHumanDogSearch(call.table)
       IN  ret' = identify_species_counterparts(
                      call.gene_mut_info, total.human_dog_pos_dict,
                      total.dog_human_pos_dict, total.human_aa_dict,
                      total.dog_aa_dict, call.translate_to)
    /\ UNCHANGED <<call, scriptVars, indexVars>>

NextTranslate == Translate

SpecTranslate == InitTranslate /\ [][NextTranslate]_vars

\* ------------------------------------------------------------------------
\* The main script: inputs
\* ------------------------------------------------------------------------
\* A table is the set of its rows (the annotation table and every output of
\* drop_duplicates hold no row twice).  A row carries the columns the
\* script reads; Consequence, End, Ensembl_gene, Total_protein_change and
\* Transcript_mut_info ride along unread and are left out.

\* a row of target_annovar_info (processAnnovar's result)
AnnovarRow(line, gene, transcript, change) ==
    [Line |-> line, Gene_name |-> gene, Chrom |-> "chr1", Start |-> "100",
     Sample_name |-> "S1", Ensembl_transcripts |-> transcript,
     Gene_mut_info |-> gene \o <<"_">> \o change]

AnnovarEntries ==
    {<<<<"TP53">>, "T1", <<"R", "1", "H">>>>,
     <<<<"TP53">>, "T2", <<"R", "1", "H">>>>,
     <<<<"KRAS">>, "T1", <<"R", "1", "H">>>>,
     <<<<"TP53">>, "T1", <<"H", "1", "R">>>>,
     <<<<"TP53">>, "T1", <<"R", "1", "f", "s">>>>}

\* line identifiers of the annotation rows ("line" + number)
AnnovarLines == {1, 2}

AnnovarRows ==
    {AnnovarRow(l, e[1], e[2], e[3]) : l \in AnnovarLines, e \in AnnovarEntries}

\* a record of the GATK table: columns 0, 3, 4, 9, 10
GatkRecord(chrom, info) ==
    [Chrom |-> chrom, Ref |-> "A", Alt |-> "T", VAF_info |-> info, Sample_name |-> "S1"]

GatkRecords ==
    {GatkRecord("chr1", <<<<"0/1">>, <<"3", "5">>>>),
     GatkRecord("chr1", <<<<"./.">>>>),
     GatkRecord("chr2", <<<<"0/1">>, <<"3", "5">>>>),
     GatkRecord("chr1", <<<<"0/1">>, <<".">>>>)}

\* the key column of a row without GATK columns: str + NaN is NaN
NaNKey == <<"NaN">>

JoinedKey == <<"chr1", "_", "100", "_", "A", "_", "T">>

\* a raw alignment row: the table's columns in file order are taken to be
\* gene, QueryIdx, reference index, QueryAA, reference residue, the query
\* being the human sequence
GapRow ==
    AlignEntry(<<"TP53">>, StrPos(<<"1">>), StrPos(<<"1">>), "-", "H")

RawAlignTable ==
    <<AlignEntry(<<"TP53">>, StrPos(<<"1">>), StrPos(<<"1">>), "R", "R"), GapRow>>

Notation_R1H == <<"TP53", "_", "R", "1", "H">>

Transcript(gene, dog) == [Gene_name |-> gene, Dog_transcripts |-> dog]

\* the sets of rows of at most n rows
SubsetsUpTo(S, n) == {T \in SUBSET S : Cardinality(T) <= n}

Files ==
    [annovar : SubsetsUpTo(AnnovarRows, MaxRows),
     gatk : SeqsUpTo(GatkRecords, MaxGatk),
     pan_cancer_source : {{JoinedKey}, {JoinedKey, NaNKey}},
     all_c_bio_list : {{}, {Notation_R1H}, {Notation_R1H, NoCounterparts}},
     all_cosmic_list : {{Notation_R1H}, {NoMutation}},
     c_bio_transcripts : {{Transcript(<<"TP53">>, "T1")},
                          {Transcript(<<"TP53">>, "T1"), Transcript(<<"KRAS">>, "T2")}},
     cosm_transcripts : {{Transcript(<<"TP53">>, "T1")},
                         {Transcript(<<"TP53">>, "T1"), Transcript(<<"KRAS">>, "T2")}},
     c_bio_align : {RawAlignTable},
     cosm_align : {RawAlignTable},
     bio_project : {"MT_PRJNA00001"}]

\* ------------------------------------------------------------------------
\* The main script: steps
\* ------------------------------------------------------------------------
Init ==
    /\ pc = "process_gatk"
    /\ files \in Files
    /\ gatk_data = {}
    /\ merge_gatk_annovar = {}
    /\ target_merge_gatk_annovar = {}
    /\ pan_cancer_pass = {}
    /\ c_bio_pass = {}
    /\ cosm_pass = {}
    /\ cosm_pass_uniq = {}
    /\ final_panancer_cbio_cosmic = {}
    /\ total_final_out = {}
    /\ written = <<>>
    /\ error = "none"
    /\ call = NoCall
    /\ ret = Idle
    /\ IndexIdle

\* the script stops at the statement that raised
Fail(e) == pc' = "failed" /\ error' = e

\* lines 122-138: number the records, extract the read counts
ProcessGatk ==
    /\ pc = "process_gatk"
    /\ LET n == Len(files.gatk)
           counts == [i \in 1..n |-> extractVAF(files.gatk[i].VAF_info)]
       IN  IF \E i \in 1..n : counts[i].raised # "none"
           THEN /\ \E i \in 1..n :
                     /\ counts[i].raised # "none"
                     /\ \A j \in 1..(i - 1) : counts[j].raised = "none"
                     /\ Fail(counts[i].raised)
                /\ UNCHANGED gatk_data
           ELSE /\ gatk_data' =
                     {[Line |-> i, Chrom |-> files.gatk[i].Chrom, Ref |-> files.gatk[i].Ref,
                       Alt |-> files.gatk[i].Alt, VAF_info |-> files.gatk[i].VAF_info,
                       Sample_name |-> files.gatk[i].Sample_name,
                       Ref_reads |-> counts[i].ref, Alt_reads |-> counts[i].alt] : i \in 1..n}
                /\ pc' = "merge"
                /\ UNCHANGED error
    /\ UNCHANGED <<files, merge_gatk_annovar, target_merge_gatk_annovar, pan_cancer_pass,
                   c_bio_pass, cosm_pass, cosm_pass_uniq, final_panancer_cbio_cosmic,
                   total_final_out, written, call, ret, indexVars>>

\* an annotation row with the columns of the GATK record g
WithGatk(a, g) ==
    [Line |-> a.Line, Gene_name |-> a.Gene_name, Chrom |-> a.Chrom, Start |-> a.Start,
     Sample_name |-> a.Sample_name, Ensembl_transcripts |-> a.Ensembl_transcripts,
     Gene_mut_info |-> a.Gene_mut_info, Ref |-> g.Ref, Alt |-> g.Alt,
     VAF_info |-> g.VAF_info, Ref_reads |-> g.Ref_reads, Alt_reads |-> g.Alt_reads]

\* the GATK columns of an annotation row that matched no record
NoGatk ==
    [Ref |-> "NaN", Alt |-> "NaN", VAF_info |-> <<<<"NaN">>>>,
     Ref_reads |-> NaNVal, Alt_reads |-> NaNVal]

\* target_annovar_info.merge(target_gatk, on=[Line, Chrom, Sample_name], how="left")
LeftMerge(left, right) ==
    UNION {LET matches == {g \in right : /\ g.Line = a.Line
                                         /\ g.Chrom = a.Chrom
                                         /\ g.Sample_name = a.Sample_name}
           IN  IF matches = {} THEN {WithGatk(a, NoGatk)}
               ELSE {WithGatk(a, g) : g \in matches}
           : a \in left}

\* lines 139-141
Merge ==
    /\ pc = "merge"
    /\ merge_gatk_annovar' = LeftMerge(files.annovar, gatk_data)
    /\ pc' = "depth_filter"
    /\ UNCHANGED <<files, gatk_data, target_merge_gatk_annovar, pan_cancer_pass,
                   c_bio_pass, cosm_pass, cosm_pass_uniq, final_panancer_cbio_cosmic,
                   total_final_out, written, error, call, ret, indexVars>>

\* the text the read-depth filter compares with
FilterText == StrVal("No info provide")

\* lines 142-145
DepthFilterRows(table) ==
    {r \in table : PyNe(r.Ref_reads, FilterText) /\ PyNe(r.Alt_reads, FilterText)}

DepthFilter ==
    /\ pc = "depth_filter"
    /\ merge_gatk_annovar' = DepthFilterRows(merge_gatk_annovar)
    /\ pc' = "vaf"
    /\ UNCHANGED <<files, gatk_data, target_merge_gatk_annovar, pan_cancer_pass,
                   c_bio_pass, cosm_pass, cosm_pass_uniq, final_panancer_cbio_cosmic,
                   total_final_out, written, error, call, ret, indexVars>>

\* astype(float) raises on a str that is no number
FloatFails(v) == v.t = "str" /\ v.d \notin DecimalTexts

\* Ref_reads.astype(float) + Alt_reads.astype(float) is NaN
DenominatorIsNaN(r) == r.Ref_reads.t = "nan" \/ r.Alt_reads.t = "nan"

\* lines 146-149: the denominator's astype(float) raises ValueError on the
\* no-info text; the quotient of the str column Alt_reads.astype(str) by a
\* float raises TypeError for every row whose denominator is a number (the
\* object-dtype division is applied where both operands are non-null)
ComputeVAF ==
    /\ pc = "vaf"
    /\ IF \E r \in merge_gatk_annovar : FloatFails(r.Ref_reads) \/ FloatFails(r.Alt_reads)
       THEN Fail("ValueError") /\ UNCHANGED merge_gatk_annovar
       ELSE IF \E r \in merge_gatk_annovar : ~DenominatorIsNaN(r)
       THEN Fail("TypeError") /\ UNCHANGED merge_gatk_annovar
       ELSE /\ merge_gatk_annovar' =
                 {[Line |-> r.Line, Gene_name |-> r.Gene_name, Chrom |-> r.Chrom,
                   Start |-> r.Start, Sample_name |-> r.Sample_name,
                   Ensembl_transcripts |-> r.Ensembl_transcripts,
                   Gene_mut_info |-> r.Gene_mut_info, Ref |-> r.Ref, Alt |-> r.Alt,
                   VAF_info |-> r.VAF_info, Ref_reads |-> r.Ref_reads,
                   Alt_reads |-> r.Alt_reads, VAF |-> "NaN"] : r \in merge_gatk_annovar}
            /\ pc' = "key"
            /\ UNCHANGED error
    /\ UNCHANGED <<files, gatk_data, target_merge_gatk_annovar, pan_cancer_pass,
                   c_bio_pass, cosm_pass, cosm_pass_uniq, final_panancer_cbio_cosmic,
                   total_final_out, written, call, ret, indexVars>>

\* Chrom + "_" + Start.astype(str) + "_" + Ref + "_" + Alt
ChromMutInfo(r) ==
    IF r.Ref = "NaN" \/ r.Alt = "NaN" THEN NaNKey
    ELSE <<r.Chrom, "_", r.Start, "_", r.Ref, "_", r.Alt>>

\* lines 174-197
BuildKey ==
    /\ pc = "key"
    /\ target_merge_gatk_annovar' =
           {[Line |-> r.Line, Gene_name |-> r.Gene_name, Chrom |-> r.Chrom,
             Start |-> r.Start, Sample_name |-> r.Sample_name,
             Ensembl_transcripts |-> r.Ensembl_transcripts,
             Gene_mut_info |-> r.Gene_mut_info, Ref |-> r.Ref, Alt |-> r.Alt,
             VAF_info |-> r.VAF_info, Ref_reads |-> r.Ref_reads,
             Alt_reads |-> r.Alt_reads, VAF |-> r.VAF,
             Chrom_mut_info |-> ChromMutInfo(r)] : r \in merge_gatk_annovar}
    /\ pc' = "pan_cancer"
    /\ UNCHANGED <<files, gatk_data, merge_gatk_annovar, pan_cancer_pass,
                   c_bio_pass, cosm_pass, cosm_pass_uniq, final_panancer_cbio_cosmic,
                   total_final_out, written, error, call, ret, indexVars>>

\* lines 226-228
PanCancerPass(table, pan_cancer_source) ==
    {r \in table : r.Chrom_mut_info \in pan_cancer_source}

PanCancer ==
    /\ pc = "pan_cancer"
    /\ pan_cancer_pass' = PanCancerPass(target_merge_gatk_annovar, files.pan_cancer_source)
    /\ pc' = "c_bio"
    /\ UNCHANGED <<files, gatk_data, merge_gatk_annovar, target_merge_gatk_annovar,
                   c_bio_pass, cosm_pass, cosm_pass_uniq, final_panancer_cbio_cosmic,
                   total_final_out, written, error, call, ret, indexVars>>

GapPos == StrPos(<<"-">>)

\* MarkGap that leaves QueryIdx as read
MarkGapKeepsIdx(entry) == entry

\* lines 236-238: QueryIdx of the rows whose QueryAA is "-" becomes "-"
MarkGap(entry) ==
    IF entry.human_aa = "-"
    THEN AlignEntry(entry.gene, GapPos, entry.dog_pos, entry.human_aa, entry.dog_aa)
    ELSE entry

\* lines 239-241: the rows whose QueryIdx is not "-", in order
RECURSIVE DropGaps(_)
DropGaps(table) ==
    IF table = <<>> THEN <<>>
    ELSE (IF Head(table).human_pos # GapPos THEN <<Head(table)>> ELSE <<>>)
         \o DropGaps(Tail(table))

clean_translate_table(table) ==
    DropGaps([i \in 1..Len(table) |-> MarkGap(table[i])])

\* ------------------------------------------------------------------------
\* The index of one alignment table (main script lines 234-244 and 282-292,
\* extract_human_somatic lines 369-377)
\* ------------------------------------------------------------------------
\* rows of the table as read: an aligned pair, a dog gap that repeats the
\* dog position, a human (query) gap that repeats the human position, a
\* human gap whose position is "-" already, a later pair, another gene
IndexEntries ==
    {AlignEntry(<<"TP53">>, StrPos(<<"1">>), StrPos(<<"1">>), "R", "R"),
     AlignEntry(<<"TP53">>, StrPos(<<"2">>), StrPos(<<"1">>), "H", "-"),
     AlignEntry(<<"TP53">>, StrPos(<<"1">>), StrPos(<<"2">>), "-", "K"),
     AlignEntry(<<"TP53">>, GapPos, StrPos(<<"2">>), "-", "K"),
     AlignEntry(<<"TP53">>, StrPos(<<"2">>), StrPos(<<"2">>), "H", "H"),
     AlignEntry(<<"KRAS">>, StrPos(<<"1">>), StrPos(<<"1">>), "G", "G")}

InitIndex ==
    /\ ScriptIdle
    /\ call = NoCall
    /\ ret = Idle
    /\ index_pc = "mark"
    /\ translate_allign_table \in SeqsUpTo(IndexEntries, MaxIndexRows)
    /\ clean_records = <<>>
    /\ total_summary_dict = EmptyTotalDict

\* lines 236-238 (370-372)
MarkGaps ==
    /\ index_pc = "mark"
    /\ translate_allign_table' =
           [i \in 1..Len(translate_allign_table) |-> MarkGap(translate_allign_table[i])]
    /\ index_pc' = "drop"
    /\ UNCHANGED <<clean_records, total_summary_dict, call, ret, scriptVars>>

\* lines 239-242 (373-377): the filter and to_records()
DropGapRows ==
    /\ index_pc = "drop"
    /\ clean_records' = DropGaps(translate_allign_table)
    /\ index_pc' = "build"
    /\ UNCHANGED <<translate_allign_table, total_summary_dict, call, ret, scriptVars>>

\* line 244 (377)
BuildIndex ==
    /\ index_pc = "build"
    /\ total_summary_dict' = createDictforHumanDogSearch(clean_records)
    /\ index_pc' = "built"
    /\ UNCHANGED <<translate_allign_table, clean_records, call, ret, scriptVars>>

NextIndex ==
    \/ MarkGaps
    \/ DropGapRows
    \/ BuildIndex

SpecIndex == InitIndex /\ [][NextIndex]_vars

\* lines 234-256 (and 282-305): the counterpart of each row's Gene_mut_info
HumanCounterparts(gene_mut_infos, align) ==
    LET total == createDictforHumanDogSearch(clean_translate_table(align))
    IN  [g \in gene_mut_infos |->
            identify_species_counterparts(g, total.human_dog_pos_dict,
                                          total.dog_human_pos_dict, total.human_aa_dict,
                                          total.dog_aa_dict, "human")]

\* lines 266-270 (and 315-319): Ensembl_transcripts.isin(Dog_transcripts)
TranscriptMatch(transcript, transcript_info) ==
    transcript \in {t.Dog_transcripts : t \in transcript_info}

\* lines 271-273 (and 320-322): counterpart.isin(list)
InMutationList(counterpart, all_list) == counterpart \in all_list

\* lines 234-276.  From here a row of target_merge_gatk_annovar is its
\* columns so far (row) and the counterpart columns added to it.
CBio ==
    /\ pc = "c_bio"
    /\ LET res == HumanCounterparts({r.Gene_mut_info : r \in target_merge_gatk_annovar},
                                    files.c_bio_align)
       IN  IF \E g \in DOMAIN res : res[g].raised # "none"
           THEN /\ \E g \in DOMAIN res : res[g].raised # "none" /\ Fail(res[g].raised)
                /\ UNCHANGED <<target_merge_gatk_annovar, c_bio_pass>>
           ELSE /\ target_merge_gatk_annovar' =
                     {[row |-> r, C_bio_Human_counterpart |-> res[r.Gene_mut_info].value]
                        : r \in target_merge_gatk_annovar}
                /\ c_bio_pass' =
                     {r \in target_merge_gatk_annovar :
                        /\ TranscriptMatch(r.Ensembl_transcripts, files.c_bio_transcripts)
                        /\ InMutationList(res[r.Gene_mut_info].value, files.all_c_bio_list)}
                /\ pc' = "cosmic"
                /\ UNCHANGED error
    /\ UNCHANGED <<files, gatk_data, merge_gatk_annovar, pan_cancer_pass,
                   cosm_pass, cosm_pass_uniq, final_panancer_cbio_cosmic,
                   total_final_out, written, call, ret, indexVars>>

\* lines 282-327
Cosmic ==
    /\ pc = "cosmic"
    /\ LET res == HumanCounterparts({x.row.Gene_mut_info : x \in target_merge_gatk_annovar},
                                    files.cosm_align)
       IN  IF \E g \in DOMAIN res : res[g].raised # "none"
           THEN /\ \E g \in DOMAIN res : res[g].raised # "none" /\ Fail(res[g].raised)
                /\ UNCHANGED <<target_merge_gatk_annovar, cosm_pass>>
           ELSE /\ target_merge_gatk_annovar' =
                     {[row |-> x.row,
                       C_bio_Human_counterpart |-> x.C_bio_Human_counterpart,
                       Cosm_Human_counterpart |-> res[x.row.Gene_mut_info].value]
                        : x \in target_merge_gatk_annovar}
                /\ cosm_pass' =
                     {x.row : x \in
                        {y \in target_merge_gatk_annovar :
                           /\ TranscriptMatch(y.row.Ensembl_transcripts, files.cosm_transcripts)
                           /\ InMutationList(res[y.row.Gene_mut_info].value,
                                             files.all_cosmic_list)}}
                /\ pc' = "reconcile"
                /\ UNCHANGED error
    /\ UNCHANGED <<files, gatk_data, merge_gatk_annovar, pan_cancer_pass,
                   c_bio_pass, cosm_pass_uniq, final_panancer_cbio_cosmic,
                   total_final_out, written, call, ret, indexVars>>

\* .loc[:, "Source"] = source
WithSource(table, source) == {[row |-> r, Source |-> source] : r \in table}

\* LeftOnly that keeps the rows found on both sides
LeftOnlyKeepsBoth(left, right) == left

\* lines 329-331: the rows of the outer merge marked left_only
LeftOnly(left, right) == left \ right

\* lines 348-356
PassedTable(pan, cbio, cosm_uniq) == pan \cup cbio \cup cosm_uniq

\* lines 329-356
Reconcile ==
    /\ pc = "reconcile"
    /\ pan_cancer_pass' = WithSource(pan_cancer_pass, "Pan-cancer")
    /\ c_bio_pass' = WithSource(c_bio_pass, "C-bio")
    /\ cosm_pass_uniq' = WithSource(LeftOnly(cosm_pass, c_bio_pass), "Cosmic")
    /\ final_panancer_cbio_cosmic' =
           PassedTable(pan_cancer_pass', c_bio_pass', cosm_pass_uniq')
    /\ pc' = "remained"
    /\ UNCHANGED <<files, gatk_data, merge_gatk_annovar, target_merge_gatk_annovar,
                   cosm_pass, total_final_out, written, error, call, ret, indexVars>>

\* remained_df that leaves out the passed rows instead of the passed keys
remained_df_ByRow(table, final) ==
    LET passed_rows == {x.row : x \in final}
    IN  WithSource({y.row : y \in {z \in table : z.row \notin passed_rows}}, "Remained")

\* lines 359-366: the rows whose key no passed row has, the counterpart
\* columns dropped
remained_df(table, final) ==
    LET passed_info == {x.row.Chrom_mut_info : x \in final}
    IN  WithSource({y.row : y \in {z \in table : z.row.Chrom_mut_info \notin passed_info}},
                   "Remained")

\* lines 359-369
Remained ==
    /\ pc = "remained"
    /\ total_final_out' =
           final_panancer_cbio_cosmic
             \cup remained_df(target_merge_gatk_annovar, final_panancer_cbio_cosmic)
    /\ pc' = "write"
    /\ UNCHANGED <<files, gatk_data, merge_gatk_annovar, target_merge_gatk_annovar,
                   pan_cancer_pass, c_bio_pass, cosm_pass, cosm_pass_uniq,
                   final_panancer_cbio_cosmic, written, error, call, ret, indexVars>>

\* a row as written: VAF_info and Line dropped, Bioproject added
WrittenRow(x, bio_project) ==
    [Gene_name |-> x.row.Gene_name, Chrom |-> x.row.Chrom, Start |-> x.row.Start,
     Sample_name |-> x.row.Sample_name,
     Ensembl_transcripts |-> x.row.Ensembl_transcripts,
     Gene_mut_info |-> x.row.Gene_mut_info, Ref |-> x.row.Ref, Alt |-> x.row.Alt,
     Ref_reads |-> x.row.Ref_reads, Alt_reads |-> x.row.Alt_reads, VAF |-> x.row.VAF,
     Chrom_mut_info |-> x.row.Chrom_mut_info, Source |-> x.Source,
     Bioproject |-> bio_project]

\* the rows of the table in the natural order of their line identifiers
\* (the order of the rows of one line is not fixed by the sort key)
RECURSIVE SortByLine(_)
SortByLine(table) ==
    IF table = {} THEN <<>>
    ELSE LET first == CHOOSE x \in table : \A y \in table : x.row.Line <= y.row.Line
         IN  <<first>> \o SortByLine(table \ {first})

\* lines 372-381
WriteOutput ==
    /\ pc = "write"
    /\ LET sorted == SortByLine(total_final_out)
       IN  written' = [i \in 1..Len(sorted) |-> WrittenRow(sorted[i], files.bio_project)]
    /\ pc' = "done"
    /\ UNCHANGED <<files, gatk_data, merge_gatk_annovar, target_merge_gatk_annovar,
                   pan_cancer_pass, c_bio_pass, cosm_pass, cosm_pass_uniq,
                   final_panancer_cbio_cosmic, total_final_out, error, call, ret, indexVars>>

Next ==
    \/ ProcessGatk
    \/ Merge
    \/ DepthFilter
    \/ ComputeVAF
    \/ BuildKey
    \/ PanCancer
    \/ CBio
    \/ Cosmic
    \/ Reconcile
    \/ Remained
    \/ WriteOutput

Spec == Init /\ [][Next]_vars

\* ------------------------------------------------------------------------
\* Properties of identify_species_counterparts (under SpecTranslate)
\* ------------------------------------------------------------------------
\* the call's gene name and protein-change text: the text before and after
\* the first "_" of the token
CallGene == Split(call.gene_mut_info)[1]

CallChange ==
    SubSeq(call.gene_mut_info, Len(CallGene) + 2, Len(call.gene_mut_info))

CallTotal == createDictforHumanDogSearch(call.table)

\* position mapping and residue mapping the call's direction reads
CallRef ==
    IF call.translate_to = "dog" THEN CallTotal.human_dog_pos_dict
    ELSE CallTotal.dog_human_pos_dict

CallOtherAA ==
    IF call.translate_to = "dog" THEN CallTotal.dog_aa_dict
    ELSE CallTotal.human_aa_dict

\* gene in the index, position aligned to a position that has a residue
Resolves(gene, digits) ==
    /\ gene \in DOMAIN CallRef
    /\ StrPos(digits) \in DOMAIN CallRef[gene]
    /\ CallRef[gene][StrPos(digits)] \in DOMAIN CallOtherAA[gene]

OtherPos(gene, digits) == CallRef[gene][StrPos(digits)]

OtherWt(gene, digits) == CallOtherAA[gene][OtherPos(gene, digits)]

\* the call's token is a frameshift notation whose gene, wild type and
\* position resolve
FsResolves ==
    /\ CountUnderscore(CallChange) = 0
    /\ FsMatches(CallChange)
    /\ Upper(GroupWt(CallChange, FsStart(CallChange))) \in common_amino_acid_value
    /\ Resolves(CallGene, GroupPos(CallChange, FsStart(CallChange)))

\* C2: for a frameshift notation whose gene is in the index, whose wild
\* type is a standard residue and whose position aligns to a position with
\* a residue, the call returns gene + "_" + other wild type + other
\* position + "fs".
C2_FrameshiftTranslated ==
    (ret # Pending /\ FsResolves) =>
        LET digits == GroupPos(CallChange, FsStart(CallChange))
        IN  ret = Returned(CallGene \o <<"_", OtherWt(CallGene, digits)>>
                           \o Str(OtherPos(CallGene, digits)) \o <<"f", "s">>)

\* C3: for every token whose protein change matches neither the frameshift
\* pattern nor the substitution pattern, the call returns "No Counterparts"
\* and raises nothing.
C3_UnsupportedIsSentinel ==
    (ret # Pending /\ ~FsMatches(CallChange) /\ ~SnvMatches(CallChange)) =>
        ret = Returned(NoCounterparts)

\* the call's token is a substitution whose wild type equals its mutant and
\* whose gene, residues and position resolve
SameResidueResolves ==
    /\ CountUnderscore(CallChange) = 0
    /\ Situation(CallChange) = "SNV"
    /\ LET i == SnvStart(CallChange)
       IN  /\ GroupWt(CallChange, i) = GroupMut(CallChange, i)
           /\ Upper(GroupWt(CallChange, i)) \in common_amino_acid_value
           /\ Resolves(CallGene, GroupPos(CallChange, i))

\* C10: when the wild type equals the mutant and gene, residues and
\* position resolve, the call returns gene + "_" + other wild type + other
\* position + other wild type, also when the mutant equals the other
\* species' wild type.
C10_SameResidueNotation ==
    (ret # Pending /\ SameResidueResolves) =>
        LET digits == GroupPos(CallChange, SnvStart(CallChange))
        IN  ret = Returned(CallGene \o <<"_", OtherWt(CallGene, digits)>>
                           \o Str(OtherPos(CallGene, digits))
                           \o <<OtherWt(CallGene, digits)>>)

\* a call returned for a substitution whose wild type, mutant and other
\* species' wild type are all the same residue
C10_Witness ==
    /\ ret # Pending
    /\ SameResidueResolves
    /\ LET i == SnvStart(CallChange)
       IN  GroupMut(CallChange, i) = OtherWt(CallGene, GroupPos(CallChange, i))

\* the call's token is a substitution whose gene, residues and position
\* resolve and whose mutant is the other species' residue at the aligned
\* position
MutantIsOtherResidue ==
    /\ CountUnderscore(CallChange) = 0
    /\ Situation(CallChange) = "SNV"
    /\ LET i == SnvStart(CallChange)
       IN  /\ Upper(GroupWt(CallChange, i)) \in common_amino_acid_value
           /\ Upper(GroupMut(CallChange, i)) \in common_amino_acid_value
           /\ Resolves(CallGene, GroupPos(CallChange, i))
           /\ GroupMut(CallChange, i) = OtherWt(CallGene, GroupPos(CallChange, i))

\* the wild type of the call's substitution differs from its mutant
WildTypeDiffers ==
    GroupWt(CallChange, SnvStart(CallChange)) # GroupMut(CallChange, SnvStart(CallChange))

\* C11 (as stated): whenever gene, residues and position resolve and the
\* mutant equals the other species' residue at the aligned position, the
\* call returns "No Mutation".
C11_NativeResidueIsNoMutation ==
    (ret # Pending /\ MutantIsOtherResidue) => ret = Returned(NoMutation)

\* C11 (amended): whenever gene, residues and position resolve, the mutant
\* differs from the wild type and equals the other species' residue at the
\* aligned position, the call returns "No Mutation".
C11_NativeResidueOfChangeIsNoMutation ==
    (ret # Pending /\ MutantIsOtherResidue /\ WildTypeDiffers) =>
        ret = Returned(NoMutation)

\* a call returned for a substitution that changes the residue into the
\* other species' residue
C11_Witness ==
    /\ ret # Pending
    /\ MutantIsOtherResidue
    /\ WildTypeDiffers

\* the call's token is a substitution or frameshift notation with a wild
\* type, or (substitution) a mutant, outside the standard residue codes
UnsupportedResidue ==
    /\ CountUnderscore(CallChange) = 0
    /\ \/ /\ Situation(CallChange) = "SNV"
          /\ LET i == SnvStart(CallChange)
             IN  \/ Upper(GroupWt(CallChange, i)) \notin common_amino_acid_value
                 \/ Upper(GroupMut(CallChange, i)) \notin common_amino_acid_value
       \/ /\ Situation(CallChange) = "fs"
          /\ Upper(GroupWt(CallChange, FsStart(CallChange))) \notin common_amino_acid_value

\* what the translator gives for another token on the call's index and
\* direction
OutcomeOf(gene_mut_info) ==
    identify_species_counterparts(gene_mut_info, CallTotal.human_dog_pos_dict,
                                  CallTotal.dog_human_pos_dict, CallTotal.human_aa_dict,
                                  CallTotal.dog_aa_dict, call.translate_to)

\* a standard substitution of a gene no alignment table has
AbsentGeneToken == <<"BRCA1", "_", "R", "1", "H">>

\* a standard substitution of the call's gene at a position no alignment
\* table has
UnalignedToken == CallGene \o <<"_", "R", "1", "1", "H">>

\* C12: a notation with a non-standard wild type or mutant returns the
\* no-counterpart outcome, and that outcome differs from the outcome for a
\* gene absent from the index and from the outcome for an unaligned position.
C12_UnsupportedResidueDistinct ==
    (ret # Pending /\ UnsupportedResidue) =>
        /\ ret = Returned(NoCounterparts)
        /\ ret # OutcomeOf(AbsentGeneToken)
        /\ ret # OutcomeOf(UnalignedToken)

\* C13: for a gene that is absent from the index the call returns
\* "No Counterparts" and raises nothing, whatever the text after the gene.
C13_AbsentGeneIsSentinel ==
    (ret # Pending /\ CallGene \notin DOMAIN CallRef) =>
        ret = Returned(NoCounterparts)

\* ------------------------------------------------------------------------
\* Properties of the main script (under Spec)
\* ------------------------------------------------------------------------
\* total_final_out has been assembled (line 369)
Assembled == pc \in {"write", "done"}

\* the rows that passed each filter (the pass tables carry Source once
\* Reconcile has run)
PanRows == {x.row : x \in pan_cancer_pass}

CBioRows == {x.row : x \in c_bio_pass}

CosmRows == cosm_pass

PassedRows == PanRows \cup CBioRows \cup CosmRows

PassedKeys == {r.Chrom_mut_info : r \in PassedRows}

MergedRows == {y.row : y \in target_merge_gatk_annovar}

\* the Source of highest priority among those that matched the row
HighestSource(r) ==
    IF r.Chrom_mut_info \in files.pan_cancer_source THEN "Pan-cancer"
    ELSE IF r \in CBioRows THEN "C-bio"
    ELSE IF r \in CosmRows THEN "Cosmic"
    ELSE "Remained"

\* C1: every row of the final output appears once, under one Source, the
\* highest-priority source that matched it; a row whose key is in the
\* pan-cancer set is labeled Pan-cancer only.
C1_OneSourceByPriority ==
    Assembled =>
        \A x \in total_final_out :
            /\ x.Source = HighestSource(x.row)
            /\ \A y \in total_final_out : y.row = x.row => y = x

\* C4: a row whose read counts are the no-info marker is removed by the
\* read-depth filter, before the VAF is computed.
C4_NoInfoRowsFiltered ==
    (pc = "vaf") =>
        \A r \in merge_gatk_annovar :
            /\ r.Ref_reads # StrVal("No info provided")
            /\ r.Alt_reads # StrVal("No info provided")

\* the annotation row of line, chromosome and sample joined a GATK record
Joined(r) ==
    \E g \in gatk_data :
        g.Line = r.Line /\ g.Chrom = r.Chrom /\ g.Sample_name = r.Sample_name

\* C5: no row of the final output, under any Source, comes from an
\* annotation record that joined no variant-table record.
C5_UnjoinedDropped ==
    Assembled => \A x \in total_final_out : Joined(x.row)

\* C6: the final output is the rows that passed a filter together with
\* all rows of the keys no passed row has, these labeled Remained; a key is
\* under Remained iff no row of that key passed, and every key of the
\* merged table is in the output.
C6_OutputIsPassedPlusRemained ==
    Assembled =>
        /\ {x.row : x \in {z \in total_final_out : z.Source # "Remained"}} = PassedRows
        /\ {x.row : x \in {z \in total_final_out : z.Source = "Remained"}}
             = {r \in MergedRows : r.Chrom_mut_info \notin PassedKeys}
        /\ \A r \in MergedRows :
             /\ (\E x \in total_final_out :
                    x.Source = "Remained" /\ x.row.Chrom_mut_info = r.Chrom_mut_info)
                <=> r.Chrom_mut_info \notin PassedKeys
             /\ \E x \in total_final_out : x.row.Chrom_mut_info = r.Chrom_mut_info

\* the output is assembled, a row passed a filter and another row of the
\* same key passed none
C6_Witness ==
    /\ Assembled
    /\ \E r \in MergedRows : r \notin PassedRows /\ r.Chrom_mut_info \in PassedKeys
    /\ \E x \in total_final_out : x.Source # "Remained"

C8_TranscriptOfSameGene ==
    /\ pc = "cosmic" =>
          \A r \in c_bio_pass :
              \E t \in files.c_bio_transcripts :
                  t.Dog_transcripts = r.Ensembl_transcripts /\ t.Gene_name = r.Gene_name
    /\ pc = "reconcile" =>
          \A r \in cosm_pass :
              \E t \in files.cosm_transcripts :
                  t.Dog_transcripts = r.Ensembl_transcripts /\ t.Gene_name = r.Gene_name

\* C9: a row whose counterpart is "No Counterparts" or "No Mutation" never
\* passes the c-bio or COSMIC filter.
C9_SentinelNeverPasses ==
    /\ pc = "cosmic" =>
          \A x \in target_merge_gatk_annovar :
              x.C_bio_Human_counterpart \in {NoCounterparts, NoMutation}
                  => x.row \notin c_bio_pass
    /\ pc = "reconcile" =>
          \A x \in target_merge_gatk_annovar :
              x.Cosm_Human_counterpart \in {NoCounterparts, NoMutation}
                  => x.row \notin cosm_pass

\* ------------------------------------------------------------------------
\* Properties of the index of an alignment table (under SpecIndex)
\* ------------------------------------------------------------------------
Built == index_pc = "built"

\* a later record of the same gene pairs the human position of record i
\* with another dog position
HumanPosRewritten(i) ==
    \E j \in (i + 1)..Len(clean_records) :
        /\ clean_records[j].gene = clean_records[i].gene
        /\ clean_records[j].human_pos = clean_records[i].human_pos
        /\ clean_records[j].dog_pos # clean_records[i].dog_pos

\* a later record of the same gene pairs the dog position of record i with
\* another human position
DogPosRewritten(i) ==
    \E j \in (i + 1)..Len(clean_records) :
        /\ clean_records[j].gene = clean_records[i].gene
        /\ clean_records[j].dog_pos = clean_records[i].dog_pos
        /\ clean_records[j].human_pos # clean_records[i].human_pos

HumanToDog(e) == total_summary_dict.human_dog_pos_dict[e.gene][e.human_pos]

DogToHuman(e) == total_summary_dict.dog_human_pos_dict[e.gene][e.dog_pos]

\* C14 (as stated): once the index is built, for every record that
\* survived the gap filter the human-to-dog mapping of its gene sends its
\* human position to its dog position and the dog-to-human mapping sends its
\* dog position to its human position.
C14_EveryPairRetrievable ==
    Built =>
        \A i \in 1..Len(clean_records) :
            /\ HumanToDog(clean_records[i]) = clean_records[i].dog_pos
            /\ DogToHuman(clean_records[i]) = clean_records[i].human_pos

\* C14 (amended): once the index is built, for every surviving record the
\* human-to-dog mapping sends its human position to its dog position unless
\* a later surviving record of the gene pairs that human position with
\* another dog position, and the dog-to-human mapping sends its dog position
\* to its human position unless a later surviving record of the gene pairs
\* that dog position with another human position.
C14_LastPairRetrievable ==
    Built =>
        \A i \in 1..Len(clean_records) :
            /\ ~HumanPosRewritten(i) =>
                  HumanToDog(clean_records[i]) = clean_records[i].dog_pos
            /\ ~DogPosRewritten(i) =>
                  DogToHuman(clean_records[i]) = clean_records[i].human_pos

\* the index is built from records of which one was rewritten by a later
\* one and another was not
C14_Witness ==
    /\ Built
    /\ \E i \in 1..Len(clean_records) : DogPosRewritten(i)
    /\ \E i \in 1..Len(clean_records) : ~DogPosRewritten(i) /\ ~HumanPosRewritten(i)

\* a row whose QueryAA or QueryIdx is the gap marker
IsGapRow(e) == e.human_aa = "-" \/ e.human_pos = GapPos

\* the rows of the table that are no gap rows
NonGapRows ==
    {translate_allign_table[i] : i \in
        {j \in 1..Len(translate_allign_table) : ~IsGapRow(translate_allign_table[j])}}

\* C15: once the index is built, every gene, key and value of each of the
\* four mappings is the gene, position and partner (or residue) of a row
\* that is no gap row: a row whose QueryAA or QueryIdx is "-" contributes
\* nothing.
C15_GapRowsNotIndexed ==
    Built =>
        /\ \A g \in DOMAIN total_summary_dict.human_dog_pos_dict :
              /\ \E e \in NonGapRows : e.gene = g
              /\ \A k \in DOMAIN total_summary_dict.human_dog_pos_dict[g] :
                    \E e \in NonGapRows :
                        /\ e.gene = g /\ e.human_pos = k
                        /\ e.dog_pos = total_summary_dict.human_dog_pos_dict[g][k]
        /\ \A g \in DOMAIN total_summary_dict.dog_human_pos_dict :
              \A k \in DOMAIN total_summary_dict.dog_human_pos_dict[g] :
                  \E e \in NonGapRows :
                      /\ e.gene = g /\ e.dog_pos = k
                      /\ e.human_pos = total_summary_dict.dog_human_pos_dict[g][k]
        /\ \A g \in DOMAIN total_summary_dict.human_aa_dict :
              \A k \in DOMAIN total_summary_dict.human_aa_dict[g] :
                  \E e \in NonGapRows :
                      /\ e.gene = g /\ e.human_pos = k
                      /\ e.human_aa = total_summary_dict.human_aa_dict[g][k]
        /\ \A g \in DOMAIN total_summary_dict.dog_aa_dict :
              \A k \in DOMAIN total_summary_dict.dog_aa_dict[g] :
                  \E e \in NonGapRows :
                      /\ e.gene = g /\ e.dog_pos = k
                      /\ e.dog_aa = total_summary_dict.dog_aa_dict[g][k]

\* the index is built from a table with a gap row and a row that is none
C15_Witness ==
    /\ Built
    /\ \E i \in 1..Len(translate_allign_table) : IsGapRow(translate_allign_table[i])
    /\ clean_records # <<>>

====
